---- MODULE Spec2Model ----
(***************************************************************************)
(* Model of update_profile.py: the GraphQL client with its retry loop      *)
(* (gql), and the cache-backed commit / lines-of-code aggregation          *)
(* (heavy_stats, init_cache_if_needed, scan_repo_history).                 *)
(***************************************************************************)
EXTENDS Integers, Sequences, FiniteSets, TLC

(***************************************************************************)
(* Part 1.  gql: one call is a loop of HTTP attempts.                      *)
(***************************************************************************)

\* GQL_MAX_RETRIES default
MAX_RETRIES == 3

\* number of consecutive gql calls explored by SpecGql
MaxCalls == 2

\* payloads a successful response can carry
MaxData == 2

VARIABLES
    gqlPc,        \* "idle" | "attempting" | "returned" | "raised"
    attempt,      \* loop variable of gql, 0 when no call is running
    last_exc,     \* gql's local last_exc ("None" or an exception name)
    gqlOut,       \* what the call returned (data) or raised (exception name)
    httpLog,      \* responses of the HTTP attempts of the current call
    calls,        \* number of gql calls started so far
    priorFailed,  \* failed HTTP attempts consumed by earlier calls
    QUERY_COUNT,  \* the module's counter per query type
    tagLog,       \* the tag of every gql call made so far
    httpAttempts  \* per tag: HTTP attempts made so far

gqlVars == <<gqlPc, attempt, last_exc, gqlOut, httpLog, calls, priorFailed,
             QUERY_COUNT, tagLog, httpAttempts>>

VARIABLES
    remoteList,   \* the account's owned repositories, in listing order
    remoteHist,   \* per repository: its default branch and commit history
    cacheFile,    \* CACHE_FILE: whether it exists and its lines
    proc          \* per process: module globals and the locals of heavy_stats

heavyVars == <<remoteList, remoteHist, cacheFile, proc>>

\* the state of gql without the tally of the call sites
gqlRest == <<gqlPc, attempt, last_exc, gqlOut, httpLog, calls, priorFailed,
             tagLog, httpAttempts>>

VARIABLES
    changes,      \* number of changes made from outside the run so far
    main,         \* the locals of main and its position
    svg           \* per file of SVG_FILES: the document on disk

auxVars == <<changes, main, svg>>

vars == <<gqlPc, attempt, last_exc, gqlOut, httpLog, calls, priorFailed,
          QUERY_COUNT, tagLog, httpAttempts,
          remoteList, remoteHist, cacheFile, proc,
          changes, main, svg>>

\* the keys of QUERY_COUNT, which are also the tags handed to gql
Tags == {"user_getter", "followers", "repos_stars", "loc_list_repos", "loc_repo_scan"}

\* What requests.post can do on one attempt: raise a network exception, or
\* answer with a status code and, for 200, a body with data or an errors block.
NetworkErrors == {"Timeout", "ConnectionError"}

Responses ==
    [exc : NetworkErrors, status : {0}, errors : {"none"}, data : {0}]
    \cup [exc : {"none"}, status : {502, 401}, errors : {"none"}, data : {0}]
    \cup [exc : {"none"}, status : {200}, errors : {"rate limit", "other"}, data : {0}]
    \cup [exc : {"none"}, status : {200}, errors : {"none"}, data : 1..MaxData]

IsSuccess(r) == r.exc = "none" /\ r.status = 200 /\ r.errors = "none"

\* the failures the specification calls retryable
IsTransient(r) ==
    \/ r.exc \in NetworkErrors
    \/ r.exc = "none" /\ r.status = 502
    \/ r.exc = "none" /\ r.status = 200 /\ r.errors = "rate limit"

\* the failures the specification calls non-retryable
IsNonRetryable(r) == ~IsSuccess(r) /\ ~IsTransient(r)

\* the exception a failed attempt raises when it is not retried
FailureOf(r) ==
    IF r.exc \in NetworkErrors THEN r.exc
    ELSE IF r.status # 200 THEN "RuntimeError:status"
    ELSE "RuntimeError:graphql"

\* `attempt < MAX_RETRIES`, the test in front of every retry
CanRetryOffByOne(a) == a < MAX_RETRIES - 1

CanRetry(a) == a < MAX_RETRIES

\* range(1, MAX_RETRIES + 1): the first value of the loop variable; prev is
\* the value the variable had when the previous call ended
FirstAttemptShared(prev) == prev + 1

FirstAttempt(prev) == 1

\* the attempts of one call
AttemptRange == 1..MAX_RETRIES

\* What one iteration of the loop body does with response r on attempt a:
\*   "continue" (sleep, next iteration), "return", or "raise".
\* A RuntimeError raised inside the try block is caught by the generic
\* `except Exception` handler, which also retries while attempt < MAX_RETRIES.
AttemptStep(r, a) ==
    IF r.exc \in NetworkErrors
    THEN [do |-> IF CanRetry(a) THEN "continue" ELSE "raise", exc |-> r.exc]
    ELSE IF r.status = 502 /\ CanRetry(a)
    THEN [do |-> "continue", exc |-> "None"]
    ELSE IF r.status # 200
    THEN [do |-> IF CanRetry(a) THEN "continue" ELSE "raise", exc |-> "RuntimeError:status"]
    ELSE IF r.errors # "none"
    THEN IF r.errors = "rate limit" /\ CanRetry(a)
         THEN [do |-> "continue", exc |-> "None"]
         ELSE [do |-> IF CanRetry(a) THEN "continue" ELSE "raise", exc |-> "RuntimeError:graphql"]
    ELSE [do |-> "return", exc |-> "None"]

\* outcome of a call: the JSON data it returned or the exception it raised
NoOut == [data |-> 0, exc |-> "None"]

Returned(d) == [data |-> d, exc |-> "None"]

Raised(e) == [data |-> 0, exc |-> e]

\* a call site that counts the same query twice
count_query_twice(qc, name) == [qc EXCEPT ![name] = @ + 2]

\* QUERY_COUNT[name] += 1
count_query(qc, name) == [qc EXCEPT ![name] = @ + 1]

\* a call site: count_query(tag), then gql(query, variables, tag) is entered
\* with last_exc = None and the loop starts
GqlCall ==
    /\ gqlPc \in {"idle", "returned", "raised"}
    /\ calls < MaxCalls
    /\ calls' = calls + 1
    /\ \E t \in Tags :
        /\ QUERY_COUNT' = count_query(QUERY_COUNT, t)
        /\ tagLog' = Append(tagLog, t)
    /\ UNCHANGED httpAttempts
    /\ priorFailed' = priorFailed + Cardinality({k \in 1..Len(httpLog) : ~IsSuccess(httpLog[k])})
    /\ httpLog' = << >>
    /\ last_exc' = "None"
    /\ LET first == FirstAttempt(attempt) IN
        IF first \in AttemptRange
        THEN /\ gqlPc' = "attempting"
             /\ attempt' = first
             /\ gqlOut' = NoOut
        ELSE \* the loop body never runs: the fallback after the loop
             /\ gqlPc' = "raised"
             /\ attempt' = attempt
             /\ gqlOut' = Raised("RuntimeError:no exception")
    /\ UNCHANGED <<heavyVars, auxVars>>

\* one iteration of the loop: one requests.post and its handling
GqlAttempt ==
    /\ gqlPc = "attempting"
    /\ \E r \in Responses :
        LET s == AttemptStep(r, attempt)
            exc == IF s.exc = "None" THEN last_exc ELSE s.exc
        IN
        /\ httpLog' = Append(httpLog, r)
        /\ httpAttempts' = [httpAttempts EXCEPT ![tagLog[Len(tagLog)]] = @ + 1]
        /\ last_exc' = exc
        /\ CASE s.do = "return" ->
                  /\ gqlPc' = "returned"
                  /\ gqlOut' = Returned(r.data)
                  /\ attempt' = attempt
             [] s.do = "raise" ->
                  /\ gqlPc' = "raised"
                  /\ gqlOut' = Raised(s.exc)
                  /\ attempt' = attempt
             [] s.do = "continue" /\ attempt + 1 \in AttemptRange ->
                  /\ gqlPc' = "attempting"
                  /\ gqlOut' = NoOut
                  /\ attempt' = attempt + 1
             [] OTHER ->
                  \* loop exhausted by a continue: the fallback after the loop
                  /\ gqlPc' = "raised"
                  /\ gqlOut' = Raised(IF exc # "None" THEN exc ELSE "RuntimeError:no exception")
                  /\ attempt' = attempt
    /\ UNCHANGED <<calls, priorFailed, QUERY_COUNT, tagLog>>
    /\ UNCHANGED <<heavyVars, auxVars>>


(***************************************************************************)
(* Part 2.  The remote account, the cache file and heavy_stats.            *)
(***************************************************************************)

\* nameWithOwner of the repositories the account can own
RepoNames == {"u/r1", "u/r2"}

\* commits of a default branch explored per repository
MaxHist == 2

\* repositories per page of the owned-repository listing (100 in the query)
ListPageSize == 1

\* commits per page of the history query (100 in the query)
HistPageSize == 1

\* distinct values of the "Generated:" timestamp of the header
MaxTime == 2

\* changes made from outside the run (pushes, edits of the cache file)
MaxChanges == 2

CACHE_COMMENT_LINES == 5

Procs == {1, 2}

\* USER_NAME and author logins, as sequences of characters
USER_NAME == <<"H", "i">>

LowerChar(c) == CASE c = "H" -> "h" [] c = "I" -> "i" [] OTHER -> c

\* str.lower()
Lower(str) == [k \in 1..Len(str) |-> LowerChar(str[k])]

\* a commit node of the history query: author.user is null or has a login
Commit(hasUser, login, add, del) ==
    [hasUser |-> hasUser, login |-> login, additions |-> add, deletions |-> del]

cMe == Commit(TRUE, <<"H", "i">>, 10, 2)

cMeLower == Commit(TRUE, <<"h", "I">>, 3, 1)

cOther == Commit(TRUE, <<"b", "o">>, 5, 4)

cGhost == Commit(FALSE, << >>, 7, 6)

\* the commits that reach each default branch, oldest first
Timeline(n) ==
    IF n = "u/r1" THEN <<cMe, cOther, cMeLower, cGhost>>
    ELSE <<cGhost, cMeLower, cMe, cOther>>

\* the same branches after a rewrite of their history (a force push)
Rewritten(n) ==
    IF n = "u/r1" THEN <<cOther, cMe, cGhost, cMeLower>>
    ELSE <<cMe, cGhost, cOther, cMeLower>>

Prefix(seq, k) == SubSeq(seq, 1, IF k < Len(seq) THEN k ELSE Len(seq))

\* a repository without default branch, and one whose branch holds commits
NoRef == [ref |-> FALSE, commits |-> << >>]

Branch(commits) == [ref |-> TRUE, commits |-> commits]

HistoryChoices(n) ==
    {NoRef} \cup {Branch(Prefix(Timeline(n), k)) : k \in 1..MaxHist}
            \cup {Branch(Prefix(Rewritten(n), k)) : k \in 1..MaxHist}

Listings ==
    {<< >>} \cup {<<n>> : n \in RepoNames}
    \cup {q \in {<<n, m>> : n \in RepoNames, m \in RepoNames} : q[1] # q[2]}

InList(n, list) == \E k \in 1..Len(list) : list[k] = n

\* remote states: repositories outside the listing do not exist
RemoteStates ==
    {r \in [list : Listings, hist : [RepoNames -> UNION {HistoryChoices(m) : m \in RepoNames}]] :
        \A n \in RepoNames :
            IF InList(n, r.list) THEN r.hist[n] \in HistoryChoices(n) ELSE r.hist[n] = NoRef}

\* hashlib.sha256(full.encode()).hexdigest(): distinct names, distinct digests
Sha256(full) == <<"sha256", full>>

\* the test `node["author"]["user"] and login.lower() == USER_NAME.lower()`
IsMineCaseSensitive(c) == c.hasUser /\ c.login = USER_NAME

IsMine(c) == c.hasUser /\ Lower(c.login) = Lower(USER_NAME)

RECURSIVE Attribute(_)
\* the accumulation of my_commits / additions / deletions over commit nodes
Attribute(commits) ==
    IF commits = << >> THEN [my |-> 0, add |-> 0, del |-> 0]
    ELSE LET c == Head(commits)
             r == Attribute(Tail(commits))
         IN IF IsMine(c)
            THEN [my |-> r.my + 1, add |-> r.add + c.additions, del |-> r.del + c.deletions]
            ELSE r

\* history(first: 0){ totalCount }, 0 when defaultBranchRef is null
CommitTotal(h) == IF ~h.ref THEN 0 ELSE Len(h.commits)

(* ---------------- the cache file ---------------- *)

HeaderLine(k, t) == [kind |-> "header", k |-> k, gen |-> IF k = 4 THEN t ELSE 0]

\* write_cache_header: title, format, user, generated, separator
Header(t) == [k \in 1..CACHE_COMMENT_LINES |-> HeaderLine(k, t)]

\* f"{expected_hash} {current_total} {my_commits} {add_loc} {del_loc}\n"
EntryWithoutCounts(hash, total, my, add, del) ==
    [kind |-> "entry", hash |-> hash, total |-> total, my |-> 0, add |-> 0, del |-> 0]

Entry(hash, total, my, add, del) ==
    [kind |-> "entry", hash |-> hash, total |-> total, my |-> my, add |-> add, del |-> del]

NoFile == [exists |-> FALSE, lines |-> << >>]

File(lines) == [exists |-> TRUE, lines |-> lines]

\* lines[CACHE_COMMENT_LINES:]
RepoLines(lines) == SubSeq(lines, CACHE_COMMENT_LINES + 1, Len(lines))

\* lines[:CACHE_COMMENT_LINES]
HeaderOfShort(lines) == Prefix(lines, CACHE_COMMENT_LINES - 1)

HeaderOf(lines) == Prefix(lines, CACHE_COMMENT_LINES)

\* one "<sha256> 0 0 0 0" line per listed repository
ZeroEntriesCounted(repos_edges) ==
    [k \in 1..Len(repos_edges) |-> Entry(Sha256(repos_edges[k]), 1, 0, 0, 0)]

ZeroEntries(repos_edges) ==
    [k \in 1..Len(repos_edges) |-> Entry(Sha256(repos_edges[k]), 0, 0, 0, 0)]

\* write_cache_header, then one zeroed line per repository appended
RebuildHeaderOnly(repos_edges, t) == File(Header(t))

Rebuild(repos_edges, t) == File(Header(t) \o ZeroEntries(repos_edges))

\* `len(repo_lines) != len(repos_edges)`
CountMismatchNever(n, m) == FALSE

CountMismatch(n, m) == n # m

\* `if FORCE_CACHE or not os.path.exists(CACHE_FILE)`
MustRebuildIgnoresFlag(force, exists) == ~exists

MustRebuild(force, exists) == force \/ ~exists

\* init_cache_if_needed applied to the file; t is the clock at the rewrite
InitCacheAlwaysRewrites(repos_edges, file, force, t) == Rebuild(repos_edges, t)

InitCacheIfNeeded(repos_edges, file, force, t) ==
    IF MustRebuild(force, file.exists)
    THEN Rebuild(repos_edges, t)
    ELSE IF CountMismatch(Len(RepoLines(file.lines)), Len(repos_edges))
    THEN Rebuild(repos_edges, t)
    ELSE file

\* the entries a complete pass leaves for a remote state
EntriesFor(r) ==
    [k \in 1..Len(r.list) |->
        LET h == r.hist[r.list[k]]
            a == Attribute(h.commits)
        IN Entry(Sha256(r.list[k]), CommitTotal(h), a.my, a.add, a.del)]

(* ---------------- heavy_stats ---------------- *)

NoResult == [commits |-> 0, loc_add |-> 0, loc_del |-> 0, loc_net |-> 0]

ZeroAcc == [my |-> 0, add |-> 0, del |-> 0]

NoPass == [ok |-> FALSE, result |-> NoResult, entries |-> << >>]

\* a process right after import: RECURSION_GUARD = 0, FORCE_CACHE from the
\* environment, heavy_stats not running
FreshProc(force) ==
    [pc |-> "idle", FORCE_CACHE |-> force, RECURSION_GUARD |-> 0,
     cursor |-> 0, full_names |-> << >>, repos |-> << >>, lines |-> << >>,
     i |-> 0, updated_lines |-> << >>, totals |-> ZeroAcc,
     current_total |-> 0, scan |-> ZeroAcc,
     result |-> NoResult, error |-> "None",
     \* observations
     paged |-> {}, callMismatches |-> 0, seenCount |-> -1,
     absent |-> {}, seenFile |-> NoFile, rank |-> 0,
     last |-> NoPass, prev |-> NoPass]

\* the frame of a heavy_stats invocation at its first statement
EnterHeavyResetsGuard(s) ==
    [s EXCEPT !.pc = "collect", !.cursor = 0, !.full_names = << >>,
              !.repos = << >>, !.lines = << >>, !.i = 0,
              !.updated_lines = << >>, !.totals = ZeroAcc,
              !.current_total = 0, !.scan = ZeroAcc,
              !.result = NoResult, !.error = "None",
              !.paged = {}, !.seenCount = -1, !.absent = {},
              !.seenFile = NoFile, !.RECURSION_GUARD = 0]

EnterHeavy(s) ==
    [s EXCEPT !.pc = "collect", !.cursor = 0, !.full_names = << >>,
              !.repos = << >>, !.lines = << >>, !.i = 0,
              !.updated_lines = << >>, !.totals = ZeroAcc,
              !.current_total = 0, !.scan = ZeroAcc,
              !.result = NoResult, !.error = "None",
              !.paged = {}, !.seenCount = -1, !.absent = {},
              !.seenFile = NoFile]

\* an exception leaves heavy_stats
Raise(s, e) == [s EXCEPT !.pc = "raised", !.error = e, !.last = NoPass]

\* `repo_hash != expected_hash`
HashMismatchNever(stored, expected) == FALSE

HashMismatch(stored, expected) == stored # expected

\* `RECURSION_GUARD > 1`
GuardTrippedAfterOne(g) == g > 0

GuardTripped(g) == g > 1

\* `from_cache = current_total == int(prev_total)`
FromCacheInverted(current_total, prev_total) == current_total # prev_total

FromCache(current_total, prev_total) == current_total = prev_total

\* lines 401-403: my_commits, add_loc, del_loc taken from the cached line
CachedTripleSwapped(prev) == [my |-> prev.my, add |-> prev.del, del |-> prev.add]

CachedTriple(prev) == [my |-> prev.my, add |-> prev.add, del |-> prev.del]

\* lines 409-412: record the repository's line, add to the totals, next i
FinishIterationPrepends(s, my, add, del) ==
    [s EXCEPT !.pc = "loop",
              !.updated_lines = <<Entry(Sha256(s.repos[s.i]), s.current_total, my, add, del)>> \o @,
              !.totals = [my |-> @.my + my, add |-> @.add + add, del |-> @.del + del],
              !.i = @ + 1,
              !.current_total = 0,
              !.scan = ZeroAcc,
              !.cursor = 0]

FinishIteration(s, my, add, del) ==
    [s EXCEPT !.pc = "loop",
              !.updated_lines = Append(@, Entry(Sha256(s.repos[s.i]), s.current_total, my, add, del)),
              !.totals = [my |-> @.my + my, add |-> @.add + add, del |-> @.del + del],
              !.i = @ + 1,
              !.current_total = 0,
              !.scan = ZeroAcc,
              !.cursor = 0]

\* `f.writelines(lines[:CACHE_COMMENT_LINES] + updated_lines)`
PersistContentUnsliced(lines, updated_lines) == lines \o updated_lines

PersistContent(lines, updated_lines) == HeaderOf(lines) \o updated_lines

\* `return total_my_commits, total_add, total_del, total_add - total_del`
HeavyResultNetAsSum(totals) ==
    [commits |-> totals.my, loc_add |-> totals.add,
     loc_del |-> totals.del, loc_net |-> totals.add + totals.del]

HeavyResult(totals) ==
    [commits |-> totals.my, loc_add |-> totals.add,
     loc_del |-> totals.del, loc_net |-> totals.add - totals.del]

Upd(p, s) == proc' = [proc EXCEPT ![p] = s]

\* heavy_stats runs on its own or where main calls it (line 693)
HeavyMayRun == main.pc \in {"off", "heavy"}

\* count_query(tag) at a call site of the heavy scan (lines 287, 298, 326).
\* QUERY_COUNT is read by main only (line 713): the tally is kept in a run
\* of main, and left out when heavy_stats is studied on its own
HeavyTally(tag) ==
    QUERY_COUNT' = IF main.pc = "off" THEN QUERY_COUNT
                   ELSE count_query(QUERY_COUNT, tag)

\* a caller invokes heavy_stats(login)
CallHeavy(p) ==
    /\ HeavyMayRun
    /\ proc[p].pc \in {"idle", "returned", "raised"}
    /\ Upd(p, [EnterHeavy(proc[p]) EXCEPT !.callMismatches = 0, !.prev = proc[p].last])
    /\ UNCHANGED <<remoteList, remoteHist, cacheFile, gqlVars, auxVars>>

\* collect_repo_full_names: one page of the owned-repository listing
CollectPage(p) ==
    LET s == proc[p] IN
    /\ HeavyMayRun
    /\ s.pc = "collect"
    /\ \E ok \in BOOLEAN :
        IF ~ok THEN Upd(p, Raise(s, "RemoteError"))
        ELSE LET last == IF s.cursor + ListPageSize < Len(remoteList)
                         THEN s.cursor + ListPageSize ELSE Len(remoteList)
                 names == s.full_names \o SubSeq(remoteList, s.cursor + 1, last)
                 hasNextPage == last < Len(remoteList)
             IN IF hasNextPage
                THEN Upd(p, [s EXCEPT !.full_names = names, !.cursor = last])
                ELSE Upd(p, [s EXCEPT !.full_names = << >>, !.cursor = 0,
                                      !.repos = names, !.pc = "init"])
    /\ HeavyTally("loc_list_repos")
    /\ UNCHANGED <<remoteList, remoteHist, cacheFile, gqlRest, auxVars>>

\* lines 370-381: init_cache_if_needed, load, and the second length check
InitAndLoad(p) ==
    LET s == proc[p] IN
    /\ HeavyMayRun
    /\ s.pc = "init"
    /\ \E t \in 1..MaxTime :
        LET file1 == InitCacheIfNeeded(s.repos, cacheFile, s.FORCE_CACHE, t)
            file2 == IF Len(RepoLines(file1.lines)) # Len(s.repos)
                     THEN InitCacheIfNeeded(s.repos, file1, s.FORCE_CACHE, t)
                     ELSE file1
        IN
        /\ cacheFile' = file2
        /\ Upd(p, [s EXCEPT !.pc = "loop", !.lines = file2.lines, !.i = 1,
                            !.seenFile = cacheFile,
                            !.seenCount = IF cacheFile.exists
                                          THEN Len(RepoLines(cacheFile.lines)) ELSE -1])
    /\ UNCHANGED <<remoteList, remoteHist, gqlVars, auxVars>>

\* lines 390-395: the stored fingerprint of entry i is not the live one
FingerprintMismatch(p) ==
    LET s == proc[p]
        repo_lines == RepoLines(s.lines)
    IN
    /\ HeavyMayRun
    /\ s.pc = "loop"
    /\ s.i <= Len(s.repos)
    /\ s.i <= Len(repo_lines)
    /\ HashMismatch(repo_lines[s.i].hash, Sha256(s.repos[s.i]))
    /\ IF GuardTripped(s.RECURSION_GUARD)
       THEN /\ Upd(p, [Raise(s, "RuntimeError:recursion guard")
                          EXCEPT !.callMismatches = @ + 1])
            /\ UNCHANGED cacheFile
       ELSE \E t \in 1..MaxTime :
            /\ cacheFile' = InitCacheIfNeeded(s.repos, cacheFile, s.FORCE_CACHE, t)
            /\ Upd(p, [EnterHeavy(s) EXCEPT !.RECURSION_GUARD = @ + 1,
                                            !.callMismatches = @ + 1])
    /\ UNCHANGED <<remoteList, remoteHist, gqlVars, auxVars>>

\* lines 387-409 for a matching entry: the cheap probe and the cache decision
ProbeRepo(p) ==
    LET s == proc[p]
        repo_lines == RepoLines(s.lines)
    IN
    /\ HeavyMayRun
    /\ s.pc = "loop"
    /\ s.i <= Len(s.repos)
    /\ IF s.i > Len(repo_lines)
       THEN /\ Upd(p, Raise(s, "IndexError"))
            /\ UNCHANGED QUERY_COUNT
       ELSE /\ ~HashMismatch(repo_lines[s.i].hash, Sha256(s.repos[s.i]))
            /\ HeavyTally("loc_repo_scan")
            /\ \E ok \in BOOLEAN :
                IF ~ok THEN Upd(p, Raise(s, "RemoteError"))
                ELSE LET prev == repo_lines[s.i]
                         current_total == CommitTotal(remoteHist[s.repos[s.i]])
                         s1 == [s EXCEPT !.current_total = current_total,
                                         !.absent = IF remoteHist[s.repos[s.i]].ref
                                                    THEN @ ELSE @ \cup {s.i}]
                         c == CachedTriple(prev)
                     IN IF FromCache(current_total, prev.total)
                        THEN Upd(p, FinishIteration(s1, c.my, c.add, c.del))
                        ELSE Upd(p, [s1 EXCEPT !.pc = "scan_probe"])
    /\ UNCHANGED <<remoteList, remoteHist, cacheFile, gqlRest, auxVars>>

\* scan_repo_history, lines 319-324: its own probe of the total
ScanProbe(p) ==
    LET s == proc[p] IN
    /\ HeavyMayRun
    /\ s.pc = "scan_probe"
    /\ \E ok \in BOOLEAN :
        IF ~ok THEN Upd(p, Raise(s, "RemoteError"))
        ELSE LET total == CommitTotal(remoteHist[s.repos[s.i]])
                 s1 == [s EXCEPT !.absent = IF remoteHist[s.repos[s.i]].ref
                                            THEN @ \ {s.i} ELSE @]
             IN IF total = 0
                THEN Upd(p, FinishIteration(s1, 0, 0, 0))
                ELSE Upd(p, [s1 EXCEPT !.pc = "scan_page", !.cursor = 0, !.scan = ZeroAcc])
    /\ HeavyTally("loc_repo_scan")
    /\ UNCHANGED <<remoteList, remoteHist, cacheFile, gqlRest, auxVars>>

\* scan_repo_history, lines 325-362: one page of the commit history
ScanPage(p) ==
    LET s == proc[p] IN
    /\ HeavyMayRun
    /\ s.pc = "scan_page"
    /\ \E ok \in BOOLEAN :
        IF ~ok THEN Upd(p, Raise([s EXCEPT !.paged = @ \cup {s.i}], "RemoteError"))
        ELSE LET h == remoteHist[s.repos[s.i]]
                 s1 == [s EXCEPT !.paged = @ \cup {s.i},
                                 !.absent = IF h.ref THEN @ \ {s.i} ELSE @]
             IN IF ~h.ref
                THEN Upd(p, FinishIteration(s1, s.scan.my, s.scan.add, s.scan.del))
                ELSE LET last == IF s.cursor + HistPageSize < Len(h.commits)
                                 THEN s.cursor + HistPageSize ELSE Len(h.commits)
                         a == Attribute(SubSeq(h.commits, s.cursor + 1, last))
                         acc == [my |-> s.scan.my + a.my, add |-> s.scan.add + a.add,
                                 del |-> s.scan.del + a.del]
                         hasNextPage == last < Len(h.commits)
                     IN IF hasNextPage
                        THEN Upd(p, [s1 EXCEPT !.scan = acc, !.cursor = last])
                        ELSE Upd(p, FinishIteration(s1, acc.my, acc.add, acc.del))
    /\ HeavyTally("loc_repo_scan")
    /\ UNCHANGED <<remoteList, remoteHist, cacheFile, gqlRest, auxVars>>

\* lines 414-417: the whole-file rewrite and the return value
Persist(p) ==
    LET s == proc[p] IN
    /\ HeavyMayRun
    /\ s.pc = "loop"
    /\ s.i > Len(s.repos)
    /\ LET content == PersistContent(s.lines, s.updated_lines)
           result == HeavyResult(s.totals)
       IN
       /\ cacheFile' = File(content)
       /\ Upd(p, [s EXCEPT !.pc = "returned", !.result = result,
                           !.rank = 1 + Cardinality({q \in Procs \ {p} :
                                                        proc[q].pc = "returned"}),
                           !.last = [ok |-> TRUE, result |-> result,
                                     entries |-> RepoLines(content)]])
    /\ UNCHANGED <<remoteList, remoteHist, gqlVars, auxVars>>

\* the process ends and the script is started again: the module globals are
\* initialised anew, FORCE_CACHE is read from the environment
NewProcess(p) ==
    /\ proc[p].pc \in {"returned", "raised"}
    /\ \E force \in BOOLEAN :
        Upd(p, [FreshProc(force) EXCEPT !.last = proc[p].last])
    /\ UNCHANGED <<remoteList, remoteHist, cacheFile, gqlVars, auxVars>>

(***************************************************************************)
(* Part 3: the renderer (format_int, truncate_text, build_stats_container, *)
(* update_svgs) and main.  Texts are sequences of characters.              *)
(***************************************************************************)

SVG_FILES == <<"dark.svg", "light.svg">>

MAX_VALUE_CHAR ==
    [age_data |-> 48, repo_data |-> 8, contrib_data |-> 8, star_data |-> 10,
     commit_data |-> 12, follower_data |-> 10, loc_data |-> 15,
     loc_add |-> 10, loc_del |-> 10]

\* the ids build_stats_container creates, and the stats key shown by each
id_map ==
    [repo_data |-> "repos", contrib_data |-> "contrib", star_data |-> "stars",
     commit_data |-> "commits", follower_data |-> "followers",
     loc_data |-> "loc_net", loc_add |-> "loc_add", loc_del |-> "loc_del"]

StatIds == DOMAIN id_map

AllIds == DOMAIN MAX_VALUE_CHAR

LocKeys == {"loc_add", "loc_del", "loc_net"}

\* the single character U+2026
ELLIPSIS == "..."

\* the text of the value elements in the templates
Placeholder == <<"-", "-">>

DigitChars == <<"0", "1", "2", "3", "4", "5", "6", "7", "8", "9">>

Digit(d) == DigitChars[d + 1]

Pad3(m) == <<Digit(m \div 100), Digit((m \div 10) % 10), Digit(m % 10)>>

\* str(n) for 0 <= n < 1000
Short(n) ==
    IF n < 10 THEN <<Digit(n)>>
    ELSE IF n < 100 THEN <<Digit(n \div 10), Digit(n % 10)>>
    ELSE Pad3(n)

RECURSIVE Grouped(_)
Grouped(n) ==
    IF n < 1000 THEN Short(n)
    ELSE Grouped(n \div 1000) \o <<",">> \o Pad3(n % 1000)

\* f"{num:,}": decimal digits in groups of three, sign first
format_int(num) == IF num < 0 THEN <<"-">> \o Grouped(0 - num) ELSE Grouped(num)

truncate_text_never(text, max_chars) == text

truncate_text(text, max_chars) ==
    IF Len(text) <= max_chars THEN text
    ELSE IF max_chars <= 1 THEN <<ELLIPSIS>>
    ELSE SubSeq(text, 1, max_chars - 1) \o <<ELLIPSIS>>

\* stats.get(key, 0)
StatsGet(stats, key) == IF key \in DOMAIN stats THEN stats[key] ELSE 0

\* the dict v of build_stats_container before truncation (lines 543-564)
ValueTexts(stats) ==
    LET heavy_has_data == "loc_net" \in DOMAIN stats IN
    [k \in {"repos", "contrib", "stars", "commits", "followers"} \cup LocKeys |->
        IF k = "loc_net"
        THEN (IF heavy_has_data THEN format_int(StatsGet(stats, k)) ELSE <<"-", "-">>)
        ELSE IF k = "loc_add"
        THEN (IF heavy_has_data THEN <<"+">> \o format_int(StatsGet(stats, k)) ELSE <<"+", "0">>)
        ELSE IF k = "loc_del"
        THEN (IF heavy_has_data THEN <<"-">> \o format_int(StatsGet(stats, k)) ELSE <<"-", "0">>)
        ELSE format_int(StatsGet(stats, k))]

\* a document: whether the file exists, whether it has the element with id
\* stats_container, the value ids it holds and their texts
NoDoc ==
    [exists |-> FALSE, container |-> FALSE, has |-> {},
     text |-> [id \in AllIds |-> << >>], written |-> FALSE]

Template(container, age) ==
    LET has == (IF container THEN StatIds ELSE {})
               \cup (IF age THEN {"age_data"} ELSE {})
    IN [exists |-> TRUE, container |-> container, has |-> has,
        text |-> [id \in AllIds |-> IF id \in has THEN Placeholder ELSE << >>],
        written |-> FALSE]

Templates == {NoDoc} \cup {Template(c, a) : c \in BOOLEAN, a \in BOOLEAN}

\* the children of the container are removed and created again with the
\* truncated value texts
build_stats_container(doc, stats) ==
    IF ~doc.container THEN doc
    ELSE LET v == ValueTexts(stats) IN
         [doc EXCEPT !.has = @ \cup StatIds,
                     !.text = [id \in AllIds |->
                                  IF id \in StatIds
                                  THEN truncate_text(v[id_map[id]], MAX_VALUE_CHAR[id])
                                  ELSE @[id]]]

\* the body of the loop of update_svgs for a file that exists
RenderDoc(doc, stats) ==
    LET d == build_stats_container(doc, stats) IN
    IF "age_data" \in d.has
    THEN [d EXCEPT !.text["age_data"] = truncate_text(stats["age"], MAX_VALUE_CHAR["age_data"]),
                   !.written = TRUE]
    ELSE [d EXCEPT !.written = TRUE]

(* ---------------- main ---------------- *)

\* stargazer counts of the owned repositories
Stargazers(n) == IF n = "u/r1" THEN 5 ELSE 3

\* repositories the account contributes to without owning them
Collaborations == 1

FollowerChoices == {0, 42}

\* (years, months, days) since BIRTHDATE on the day of the run
AgeChoices == {<<21, 9, 18>>, <<1, 0, 0>>}

\* f"{n} {unit}{'s' if n != 1 else ''}"
Unit(n, unit) == Short(n) \o <<" ">> \o unit \o (IF n # 1 THEN <<"s">> ELSE << >>)

rel_age(diff) ==
    Unit(diff[1], <<"y", "e", "a", "r">>) \o <<",", " ">>
    \o Unit(diff[2], <<"m", "o", "n", "t", "h">>) \o <<",", " ">>
    \o Unit(diff[3], <<"d", "a", "y">>)
    \o (IF diff[2] = 0 /\ diff[3] = 0 THEN <<" ", "cake">> ELSE << >>)

NoStats == [k \in {} |-> 0]

\* main at its first statement
FreshMain(do_heavy) ==
    [pc |-> "start", DO_HEAVY |-> do_heavy, age |-> << >>, cursor |-> 0,
     stars |-> 0, owned_repos |-> 0, contrib_repos |-> 0, followers |-> 0,
     commits |-> 0, loc_add |-> 0, loc_del |-> 0, loc_net |-> 0,
     stats |-> NoStats, file |-> 1, error |-> "None",
     \* observations
     visited |-> << >>, answered |-> {}]

\* main is not running
MainOff == [FreshMain(FALSE) EXCEPT !.pc = "off"]

\* a remote query gave up (gql raised): the exception leaves main
MainFail(m) == [m EXCEPT !.pc = "raised", !.error = "RemoteError"]

RECURSIVE SumStars(_)
SumStars(edges) ==
    IF edges = << >> THEN 0
    ELSE Stargazers(Head(edges)) + SumStars(Tail(edges))

\* `for e in repos["edges"]: stars += ...`
AddStarsLastPage(stars, edges) == SumStars(edges)

AddStars(stars, edges) == stars + SumStars(edges)

\* `if DO_HEAVY:` at line 691
RunHeavyNever(do_heavy) == FALSE

RunHeavy(do_heavy) == do_heavy

\* `if DO_HEAVY:` at line 702
WithLocAlways(do_heavy) == TRUE

WithLoc(do_heavy) == do_heavy

StatsKeys(with_loc) ==
    {"age", "repos", "stars", "contrib", "followers", "commits"}
    \cup (IF with_loc THEN LocKeys ELSE {})

\* the dict built at lines 695-708
StatsRecord(m) ==
    [k \in StatsKeys(WithLoc(m.DO_HEAVY)) |->
        CASE k = "age" -> m.age
          [] k = "repos" -> m.owned_repos
          [] k = "stars" -> m.stars
          [] k = "contrib" -> m.contrib_repos
          [] k = "followers" -> m.followers
          [] k = "commits" -> m.commits
          [] k = "loc_add" -> m.loc_add
          [] k = "loc_del" -> m.loc_del
          [] OTHER -> m.loc_net]

\* the tag of both listings of get_repos_and_stars (lines 186, 214, 217, 236)
ReposStarsTagOfScan == "loc_list_repos"

ReposStarsTag == "repos_stars"

\* count_query(tag) at a call site of main's queries
Tally(tag) == QUERY_COUNT' = count_query(QUERY_COUNT, tag)

\* get_user_and_created, then rel_age
GetUserAndCreated ==
    /\ main.pc = "start"
    /\ \/ \E diff \in AgeChoices :
            main' = [main EXCEPT !.pc = "owned", !.age = rel_age(diff),
                                 !.stars = 0, !.cursor = 0,
                                 !.answered = @ \cup {"user_getter"}]
       \/ main' = MainFail(main)
    /\ Tally("user_getter")
    /\ UNCHANGED <<heavyVars, gqlRest, changes, svg>>

\* one turn of the first loop of get_repos_and_stars
OwnedPage ==
    /\ main.pc = "owned"
    /\ \/ LET last == IF main.cursor + ListPageSize < Len(remoteList)
                       THEN main.cursor + ListPageSize ELSE Len(remoteList)
               edges == SubSeq(remoteList, main.cursor + 1, last)
               m1 == [main EXCEPT !.owned_repos = Len(remoteList),
                                  !.stars = AddStars(@, edges),
                                  !.visited = Append(@, main.cursor)]
           IN IF last < Len(remoteList)
              THEN main' = [m1 EXCEPT !.cursor = last]
              ELSE main' = [m1 EXCEPT !.pc = "contrib", !.cursor = 0,
                                      !.answered = @ \cup {"owned"}]
       \/ main' = MainFail(main)
    /\ Tally(ReposStarsTag)
    /\ UNCHANGED <<heavyVars, gqlRest, changes, svg>>

\* one turn of the second loop of get_repos_and_stars
ContribPage ==
    /\ main.pc = "contrib"
    /\ \/ LET total == Len(remoteList) + Collaborations
               m1 == [main EXCEPT !.contrib_repos = total]
           IN IF main.cursor + ListPageSize < total
              THEN main' = [m1 EXCEPT !.cursor = @ + ListPageSize]
              ELSE main' = [m1 EXCEPT !.pc = "followers", !.cursor = 0,
                                      !.answered = @ \cup {"contrib"}]
       \/ main' = MainFail(main)
    /\ Tally(ReposStarsTag)
    /\ UNCHANGED <<heavyVars, gqlRest, changes, svg>>

\* get_followers, then lines 690-691
GetFollowers ==
    /\ main.pc = "followers"
    /\ \/ \E n \in FollowerChoices :
            main' = [main EXCEPT !.followers = n,
                                 !.commits = 0, !.loc_add = 0,
                                 !.loc_del = 0, !.loc_net = 0,
                                 !.answered = @ \cup {"followers"},
                                 !.pc = IF RunHeavy(main.DO_HEAVY)
                                        THEN "heavy" ELSE "stats"]
       \/ main' = MainFail(main)
    /\ Tally("followers")
    /\ UNCHANGED <<heavyVars, gqlRest, changes, svg>>

\* `heavy_stats(USER_NAME)` at line 693
MainCallsHeavy ==
    /\ proc[1].pc = "idle"
    /\ CallHeavy(1)

\* `commits, loc_add, loc_del, loc_net = heavy_stats(USER_NAME)`
HeavyReturns ==
    /\ main.pc = "heavy"
    /\ \/ /\ proc[1].pc = "returned"
          /\ main' = [main EXCEPT !.pc = "stats",
                                  !.commits = proc[1].result.commits,
                                  !.loc_add = proc[1].result.loc_add,
                                  !.loc_del = proc[1].result.loc_del,
                                  !.loc_net = proc[1].result.loc_net,
                                  !.answered = @ \cup {"heavy"}]
       \/ /\ proc[1].pc = "raised"
          /\ main' = MainFail(main)
    /\ UNCHANGED <<heavyVars, gqlVars, changes, svg>>

BuildStats ==
    /\ main.pc = "stats"
    /\ main' = [main EXCEPT !.pc = "render", !.stats = StatsRecord(main), !.file = 1]
    /\ UNCHANGED <<heavyVars, gqlVars, changes, svg>>

\* one turn of the loop of update_svgs
UpdateSvg ==
    /\ main.pc = "render"
    /\ LET f == SVG_FILES[main.file] IN
       svg' = IF svg[f].exists THEN [svg EXCEPT ![f] = RenderDoc(@, main.stats)] ELSE svg
    /\ main' = [main EXCEPT !.file = @ + 1,
                            !.pc = IF main.file = Len(SVG_FILES) THEN "done" ELSE "render"]
    /\ UNCHANGED <<heavyVars, gqlVars, changes>>

AuxIdle ==
    /\ main = MainOff
    /\ svg = [f \in {SVG_FILES[k] : k \in 1..Len(SVG_FILES)} |-> NoDoc]

GqlIdle ==
    /\ changes = 0
    /\ gqlPc = "idle"
    /\ attempt = 0
    /\ last_exc = "None"
    /\ gqlOut = NoOut
    /\ httpLog = << >>
    /\ calls = 0
    /\ priorFailed = 0
    /\ QUERY_COUNT = [t \in Tags |-> 0]
    /\ tagLog = << >>
    /\ httpAttempts = [t \in Tags |-> 0]

\* the cache file is absent, or was left by an earlier complete pass over an
\* earlier state of the account; one process is started
HeavyInit ==
    /\ \E r \in RemoteStates :
        /\ remoteList = r.list
        /\ remoteHist = r.hist
    /\ \/ cacheFile = NoFile
       \/ \E old \in RemoteStates :
            cacheFile = File(Header(1) \o EntriesFor(old))
    /\ \E force \in BOOLEAN :
        proc = [p \in Procs |-> FreshProc(IF p = 1 THEN force ELSE FALSE)]

Init ==
    /\ GqlIdle
    /\ AuxIdle
    /\ HeavyInit

Step(p) ==
    \/ CallHeavy(p)
    \/ CollectPage(p)
    \/ InitAndLoad(p)
    \/ FingerprintMismatch(p)
    \/ ProbeRepo(p)
    \/ ScanProbe(p)
    \/ ScanPage(p)
    \/ Persist(p)
    \/ NewProcess(p)

Next == Step(1)

Spec == Init /\ [][Next]_vars

\* the statements of a heavy_stats call that has been entered: the
\* interpreter runs them until the call returns or raises
Run(p) ==
    \/ CollectPage(p)
    \/ InitAndLoad(p)
    \/ FingerprintMismatch(p)
    \/ ProbeRepo(p)
    \/ ScanProbe(p)
    \/ ScanPage(p)
    \/ Persist(p)

LiveInit ==
    /\ Init
    /\ \A k \in 1..Len(RepoLines(cacheFile.lines)) :
          RepoLines(cacheFile.lines)[k].total <= 1

\* one process: heavy_stats is called again and again, the globals live on
LiveNext == CallHeavy(1) \/ Run(1)

SpecLive == LiveInit /\ [][LiveNext]_vars /\ WF_vars(Run(1))

\* the account changes while the script runs or between runs: a push, a
\* force push, or the deletion or creation of the default branch of a listed
\* repository
RemotePush(n) ==
    /\ InList(n, remoteList)
    /\ changes < MaxChanges
    /\ changes' = changes + 1
    /\ \E h \in HistoryChoices(n) \ {remoteHist[n]} :
        remoteHist' = [remoteHist EXCEPT ![n] = h]
    /\ UNCHANGED <<remoteList, cacheFile, proc, gqlVars, main, svg>>

DriftInit ==
    /\ Init
    /\ Len(remoteList) <= 1
    /\ ~proc[1].FORCE_CACHE
    /\ cacheFile.exists => Len(cacheFile.lines) = CACHE_COMMENT_LINES + 1
                          /\ HeaderOf(cacheFile.lines) = Header(1)

DriftNext == Step(1) \/ \E n \in RepoNames : RemotePush(n)

SpecDrift == DriftInit /\ [][DriftNext]_vars

\* two runs of the script for the same account share the cache file; each
\* calls heavy_stats once, and the account can change meanwhile
RunOnce(p) ==
    \/ proc[p].pc = "idle" /\ CallHeavy(p)
    \/ CollectPage(p)
    \/ InitAndLoad(p)
    \/ FingerprintMismatch(p)
    \/ ProbeRepo(p)
    \/ ScanProbe(p)
    \/ ScanPage(p)
    \/ Persist(p)

TwoInit ==
    /\ GqlIdle
    /\ AuxIdle
    /\ \E r \in RemoteStates :
        /\ Len(r.list) = 1
        /\ \A n \in RepoNames : Len(r.hist[n].commits) <= 1
        /\ remoteList = r.list
        /\ remoteHist = r.hist
    /\ \/ cacheFile = NoFile
       \/ \E old \in RemoteStates :
            /\ Len(old.list) = 1
            /\ \A n \in RepoNames : Len(old.hist[n].commits) <= 1
            /\ cacheFile = File(Header(1) \o EntriesFor(old))
    /\ proc = [p \in Procs |-> FreshProc(FALSE)]

TwoNext ==
    \/ \E p \in Procs : RunOnce(p)
    \/ \E n \in RepoNames : RemotePush(n)

SpecTwo == TwoInit /\ [][TwoNext]_vars

\* numeric fields an edit of the cache file can leave in an entry: counts
\* no history of the account produces
CorruptValues == {[total |-> t, my |-> 9, add |-> 99, del |-> 1] : t \in 0..1}

\* between two runs the numeric fields of one entry line are altered; the
\* number of lines and the fingerprints stay
CorruptEntry ==
    /\ proc[1].pc \in {"idle", "returned"}
    /\ changes < MaxChanges
    /\ changes' = changes + 1
    /\ cacheFile.exists
    /\ \E k \in (CACHE_COMMENT_LINES + 1)..Len(cacheFile.lines), v \in CorruptValues :
        /\ cacheFile.lines[k].kind = "entry"
        /\ cacheFile' = [cacheFile EXCEPT !.lines[k] =
                            [@ EXCEPT !.total = v.total, !.my = v.my,
                                      !.add = v.add, !.del = v.del]]
    /\ UNCHANGED <<remoteList, remoteHist, proc, gqlVars, main, svg>>

CorruptInit ==
    /\ Init
    /\ ~proc[1].FORCE_CACHE
    /\ Len(remoteList) >= 1
    /\ cacheFile.exists
    /\ Len(RepoLines(cacheFile.lines)) = Len(remoteList)
    /\ \A k \in 1..Len(remoteList) :
          /\ RepoLines(cacheFile.lines)[k].total <= 1
          /\ remoteHist[remoteList[k]].ref
          /\ Len(remoteHist[remoteList[k]].commits) = 1

CorruptNext == Step(1) \/ CorruptEntry

SpecCorrupt == CorruptInit /\ [][CorruptNext]_vars

\* a line that write_cache_header did not write
JunkLine == [kind |-> "junk", k |-> 0, gen |-> 0]

\* cache files as an editor or an older layout can leave them: intact, the
\* first header line replaced, or the first header line deleted
FoundFiles(entries) ==
    {File(Header(1) \o entries),
     File(<<JunkLine>> \o Tail(Header(1)) \o entries),
     File(Tail(Header(1)) \o entries)}

\* heavy_stats started on a cache file it did not necessarily write itself
FoundInit ==
    /\ GqlIdle
    /\ AuxIdle
    /\ \E r \in RemoteStates :
        /\ remoteList = r.list
        /\ remoteHist = r.hist
    /\ \/ cacheFile = NoFile
       \/ \E old \in RemoteStates :
            /\ \A n \in RepoNames : Len(old.hist[n].commits) <= 1
            /\ cacheFile \in FoundFiles(EntriesFor(old))
    /\ \E force \in BOOLEAN :
        proc = [p \in Procs |-> FreshProc(IF p = 1 THEN force ELSE FALSE)]

SpecFound == FoundInit /\ [][Next]_vars

GqlInit ==
    /\ GqlIdle
    /\ AuxIdle
    /\ remoteList = << >>
    /\ remoteHist = [n \in RepoNames |-> NoRef]
    /\ cacheFile = NoFile
    /\ proc = [p \in Procs |-> FreshProc(FALSE)]

GqlNext == GqlCall \/ GqlAttempt

SpecGql == GqlInit /\ [][GqlNext]_vars

\* a run of the script: the templates are on disk (or missing), DO_HEAVY
\* comes from the environment
MainInit ==
    /\ GqlIdle
    /\ HeavyInit
    /\ ~proc[1].FORCE_CACHE
    /\ cacheFile.exists =>
          /\ HeaderOf(cacheFile.lines) = Header(1)
          /\ \A k \in 1..Len(RepoLines(cacheFile.lines)) :
                RepoLines(cacheFile.lines)[k].total <= 1
    /\ \E do_heavy \in BOOLEAN : main = FreshMain(do_heavy)
    /\ \E d \in {NoDoc, Template(TRUE, TRUE)} :
        svg = [f \in {SVG_FILES[k] : k \in 1..Len(SVG_FILES)} |->
                  IF f = SVG_FILES[1] THEN d ELSE Template(TRUE, TRUE)]

MainNext ==
    \/ GetUserAndCreated
    \/ OwnedPage
    \/ ContribPage
    \/ GetFollowers
    \/ MainCallsHeavy
    \/ CollectPage(1)
    \/ InitAndLoad(1)
    \/ FingerprintMismatch(1)
    \/ ProbeRepo(1)
    \/ ScanProbe(1)
    \/ ScanPage(1)
    \/ Persist(1)
    \/ HeavyReturns
    \/ BuildStats
    \/ UpdateSvg

SpecMain == MainInit /\ [][MainNext]_vars

\* counts the remote API and the heavy scan can report
RenderValues == {0, 42, 12345678, 1234567890}

LocValues == {2, 10, 10000000}

\* update_svgs applied to any stats record main can build: main is at line
\* 710, its locals hold what the queries and heavy_stats returned
RenderInit ==
    /\ GqlIdle
    /\ remoteList = << >>
    /\ remoteHist = [n \in RepoNames |-> NoRef]
    /\ cacheFile = NoFile
    /\ proc = [p \in Procs |-> FreshProc(FALSE)]
    /\ svg \in [{SVG_FILES[k] : k \in 1..Len(SVG_FILES)} -> Templates]
    /\ \E do_heavy \in BOOLEAN, diff \in AgeChoices,
          repos \in RenderValues, stars \in RenderValues,
          followers \in RenderValues, commits \in RenderValues,
          add \in LocValues, del \in LocValues :
        LET m == [FreshMain(do_heavy) EXCEPT
                     !.age = rel_age(diff),
                     !.owned_repos = repos,
                     !.stars = stars,
                     !.contrib_repos = repos + Collaborations,
                     !.followers = followers,
                     !.commits = IF do_heavy THEN commits ELSE 0,
                     !.loc_add = IF do_heavy THEN add ELSE 0,
                     !.loc_del = IF do_heavy THEN del ELSE 0,
                     !.loc_net = IF do_heavy THEN add - del ELSE 0,
                     !.answered = {"user_getter", "owned", "contrib", "followers"}
                                  \cup (IF do_heavy THEN {"heavy"} ELSE {})]
        IN main = [m EXCEPT !.pc = "render", !.stats = StatsRecord(m)]

RenderNext == UpdateSvg

SpecRender == RenderInit /\ [][RenderNext]_vars

(***************************************************************************)
(* Properties of heavy_stats (checked under Spec).                         *)
(***************************************************************************)

InPass(s) == s.pc \in {"loop", "scan_probe", "scan_page", "returned"}

RECURSIVE SumField(_, _)
SumField(entries, f) ==
    IF entries = << >> THEN 0
    ELSE (CASE f = "my" -> Head(entries).my
            [] f = "add" -> Head(entries).add
            [] OTHER -> Head(entries).del) + SumField(Tail(entries), f)

\* entry j of the pass took the cache-valid path: the total written back is
\* the probed total, and it equals the cached one
CacheValid(s, j) ==
    /\ j <= Len(RepoLines(s.lines))
    /\ RepoLines(s.lines)[j].total = s.updated_lines[j].total

\* C1: for every repository whose cached totalCommits equals the probed
\* total, no history page is requested in the pass, the line written back
\* carries the cached myCommits / additions / deletions, and the running
\* aggregate is the sum of the lines recorded so far.
C1_CacheReuse ==
    \A p \in Procs :
        LET s == proc[p] IN
        InPass(s) =>
            /\ \A j \in 1..Len(s.updated_lines) :
                  CacheValid(s, j) =>
                      /\ j \notin s.paged
                      /\ s.updated_lines[j].my = RepoLines(s.lines)[j].my
                      /\ s.updated_lines[j].add = RepoLines(s.lines)[j].add
                      /\ s.updated_lines[j].del = RepoLines(s.lines)[j].del
            /\ s.totals = [my |-> SumField(s.updated_lines, "my"),
                           add |-> SumField(s.updated_lines, "add"),
                           del |-> SumField(s.updated_lines, "del")]

\* a pass returned after reusing a cached entry with non-zero counts
C1_Witness ==
    \E p \in Procs :
        LET s == proc[p] IN
        /\ s.pc = "returned"
        /\ \E j \in 1..Len(s.updated_lines) :
              /\ CacheValid(s, j)
              /\ s.updated_lines[j].total > 0
              /\ s.updated_lines[j].add > s.updated_lines[j].del
              /\ s.updated_lines[j].del > 0
              /\ j \notin s.paged

\* heavy_stats stands at an entry whose stored fingerprint is not the
\* fingerprint of the live repository at that index
MismatchFound(p) ==
    LET s == proc[p] IN
    /\ s.pc = "loop"
    /\ s.i <= Len(s.repos)
    /\ s.i <= Len(RepoLines(s.lines))
    /\ RepoLines(s.lines)[s.i].hash # Sha256(s.repos[s.i])

\* C2 (as claimed): whenever a fingerprint mismatch is found, the step that
\* handles it leaves the cache rebuilt (one zeroed entry per listed
\* repository) and restarts the pass, whatever the force-rebuild flag is.
C2_MismatchRebuilds ==
    [][\A p \in Procs :
          (MismatchFound(p) /\ proc'[p] # proc[p]) =>
              /\ cacheFile'.exists
              /\ RepoLines(cacheFile'.lines) = ZeroEntries(proc[p].repos)
              /\ proc'[p].pc = "collect"]_vars

GuardError(s) == s.pc = "raised" /\ s.error = "RuntimeError:recursion guard"

\* C3 (as claimed): the second fingerprint mismatch of a heavy_stats call
\* raises the fatal error instead of restarting again.
C3_SecondMismatchRaises ==
    \A p \in Procs : proc[p].callMismatches >= 2 => GuardError(proc[p])

\* C3 (amended): the restarts are bounded to two per process.  A mismatch
\* found while RECURSION_GUARD <= 1 increments the guard and restarts the
\* pass; a mismatch found while RECURSION_GUARD > 1 raises RuntimeError out
\* of heavy_stats and restarts nothing.
C3_TwoRestartsThenRaise ==
    [][\A p \in Procs :
          (MismatchFound(p) /\ proc'[p] # proc[p]) =>
              IF proc[p].RECURSION_GUARD <= 1
              THEN /\ proc'[p].pc = "collect"
                   /\ proc'[p].RECURSION_GUARD = proc[p].RECURSION_GUARD + 1
              ELSE /\ GuardError(proc'[p])
                   /\ proc'[p].RECURSION_GUARD = 2
                   /\ cacheFile' = cacheFile]_vars

\* the third mismatch of a call has raised, after two restarts
C3_Witness ==
    \E p \in Procs :
        /\ GuardError(proc[p])
        /\ proc[p].callMismatches = 3
        /\ proc[p].RECURSION_GUARD = 2

\* the pass has just loaded the cache and has read no entry yet
JustLoaded(s) == s.pc = "loop" /\ s.i = 1 /\ s.updated_lines = << >>

\* C4: when init_cache_if_needed finds a cache file with N entry lines and
\* the listing has M # N repositories, the file heavy_stats loads is the
\* header followed by exactly M zeroed entries, entry k with the fingerprint
\* of the k-th listed repository.
C4_RebuildOnCountMismatch ==
    \A p \in Procs :
        LET s == proc[p] IN
        (JustLoaded(s) /\ s.seenCount >= 0 /\ s.seenCount # Len(s.repos)) =>
            /\ cacheFile.exists
            /\ cacheFile.lines = s.lines
            /\ Len(s.lines) = CACHE_COMMENT_LINES + Len(s.repos)
            /\ \A k \in 1..CACHE_COMMENT_LINES : s.lines[k].kind = "header" /\ s.lines[k].k = k
            /\ \A k \in 1..Len(s.repos) :
                  RepoLines(s.lines)[k] = Entry(Sha256(s.repos[k]), 0, 0, 0, 0)

\* a cache of two entries met a listing of one repository, flag off
C4_Witness ==
    \E p \in Procs :
        LET s == proc[p] IN
        /\ JustLoaded(s)
        /\ ~s.FORCE_CACHE
        /\ s.seenCount = 2
        /\ Len(s.repos) = 1

\* C5: after a heavy_stats call that returned, the cache file has one entry
\* line per repository of the listing the pass used, entry k carrying the
\* fingerprint of the k-th repository.
C5_EntriesMatchListing ==
    \A p \in Procs :
        LET s == proc[p] IN
        s.pc = "returned" =>
            /\ cacheFile.exists
            /\ Len(RepoLines(cacheFile.lines)) = Len(s.repos)
            /\ \A k \in 1..Len(s.repos) :
                  /\ RepoLines(cacheFile.lines)[k].kind = "entry"
                  /\ RepoLines(cacheFile.lines)[k].hash = Sha256(s.repos[k])

\* a pass over two repositories returned although the cache it found had
\* a single entry
C5_Witness ==
    \E p \in Procs :
        /\ proc[p].pc = "returned"
        /\ Len(proc[p].repos) = 2
        /\ proc[p].seenCount = 1

\* C6 (as claimed): a pass that follows a successful pass over the same
\* remote returns the same result, leaves the same entry lines and requests
\* no history page.
C6_Idempotent ==
    \A p \in Procs :
        LET s == proc[p] IN
        (s.pc = "returned" /\ s.prev.ok) =>
            /\ s.last.result = s.prev.result
            /\ s.last.entries = s.prev.entries
            /\ s.paged = {}

\* C6 (amended): the same, for a second pass that runs with the
\* force-rebuild flag off; every repository then takes the cache-valid path.
C6_IdempotentUnlessForced ==
    \A p \in Procs :
        LET s == proc[p] IN
        (s.pc = "returned" /\ s.prev.ok /\ ~s.FORCE_CACHE) =>
            /\ s.last.result = s.prev.result
            /\ s.last.entries = s.prev.entries
            /\ s.paged = {}
            /\ s.callMismatches = 0
            /\ \A j \in 1..Len(s.repos) : CacheValid(s, j)

\* a second pass returned a non-trivial result without any rescan
C6_Witness ==
    \E p \in Procs :
        LET s == proc[p] IN
        /\ s.pc = "returned"
        /\ s.prev.ok
        /\ ~s.FORCE_CACHE
        /\ Len(s.repos) = 2
        /\ s.result.commits > 0
        /\ s.result.loc_net > 0

\* the logins that are USER_NAME up to the case of their letters
TrackedLogins == {<<a, b>> : a \in {"H", "h"}, b \in {"I", "i"}}

Tracked(commits) ==
    {k \in 1..Len(commits) : commits[k].hasUser /\ commits[k].login \in TrackedLogins}

RECURSIVE SumOver(_, _, _)
SumOver(commits, ks, f) ==
    IF ks = {} THEN 0
    ELSE LET k == CHOOSE x \in ks : TRUE
         IN (IF f = "add" THEN commits[k].additions ELSE commits[k].deletions)
            + SumOver(commits, ks \ {k}, f)

\* C7: for a repository that was rescanned, the recorded myCommits is the
\* number of commits of the whole history whose author login is the tracked
\* account up to case, and additions / deletions are the sums over exactly
\* those commits; commits of other accounts or without account add nothing.
C7_AuthorAttribution ==
    \A p \in Procs :
        LET s == proc[p] IN
        InPass(s) =>
            \A j \in 1..Len(s.updated_lines) :
                j \in s.paged =>
                    LET commits == remoteHist[s.repos[j]].commits
                        mine == Tracked(commits)
                    IN /\ s.updated_lines[j].my = Cardinality(mine)
                       /\ s.updated_lines[j].add = SumOver(commits, mine, "add")
                       /\ s.updated_lines[j].del = SumOver(commits, mine, "del")

\* a rescan over more than one page met a commit of the tracked account in a
\* different case, a commit without account, and counted one commit
C7_Witness ==
    \E p \in Procs :
        LET s == proc[p] IN
        /\ s.pc = "returned"
        /\ \E j \in s.paged :
              LET commits == remoteHist[s.repos[j]].commits IN
              /\ Len(commits) > HistPageSize
              /\ \E k \in 1..Len(commits) : commits[k] = cMeLower
              /\ \E k \in 1..Len(commits) : ~commits[k].hasUser
              /\ s.updated_lines[j].my = 1

(***************************************************************************)
(* Properties of gql (checked under SpecGql).                              *)
(***************************************************************************)

\* C8: a gql call makes at most MAX_RETRIES HTTP attempts and then returns
\* or raises, and the attempt number counts the attempts of the current call
\* only: whatever earlier calls consumed, a call starts at attempt 1 and a
\* finished call has made between 1 and MAX_RETRIES attempts of its own.
C8_BudgetPerCall ==
    /\ Len(httpLog) <= MAX_RETRIES
    /\ gqlPc = "attempting" => attempt = Len(httpLog) + 1 /\ attempt <= MAX_RETRIES
    /\ gqlPc \in {"returned", "raised"} => Len(httpLog) >= 1 /\ attempt = Len(httpLog)

\* a second call spends a full budget although the first call spent its own
C8_Witness ==
    /\ calls = 2
    /\ priorFailed = MAX_RETRIES
    /\ gqlPc = "raised"
    /\ Len(httpLog) = MAX_RETRIES

\* C9 (as claimed): a non-retryable failure is the last attempt of its call
\* and the call has raised.
C9_NonRetryableImmediate ==
    \A k \in 1..Len(httpLog) :
        IsNonRetryable(httpLog[k]) => k = Len(httpLog) /\ gqlPc = "raised"

\* C10: a call that returned returns the data of its last attempt, which is
\* the first successful one; a call that raised after transient failures only
\* has used the whole budget and raises the failure of its last attempt.
C10_TransientRetried ==
    /\ gqlPc = "returned" =>
          LET n == Len(httpLog) IN
          /\ n \in 1..MAX_RETRIES
          /\ IsSuccess(httpLog[n])
          /\ gqlOut = Returned(httpLog[n].data)
          /\ \A k \in 1..(n - 1) : ~IsSuccess(httpLog[k])
    /\ (gqlPc = "raised" /\ \A k \in 1..Len(httpLog) : IsTransient(httpLog[k])) =>
          /\ Len(httpLog) = MAX_RETRIES
          /\ gqlOut = Raised(FailureOf(httpLog[MAX_RETRIES]))

\* success on the last attempt of the budget after a 502 and a timeout
C10_Witness ==
    /\ gqlPc = "returned"
    /\ Len(httpLog) = MAX_RETRIES
    /\ httpLog[1].status = 502
    /\ httpLog[2].exc = "Timeout"
    /\ gqlOut = Returned(httpLog[MAX_RETRIES].data)


\* the number of gql calls made under tag t
CallsUnder(t) == Cardinality({k \in 1..Len(tagLog) : tagLog[k] = t})

GqlAtRest == gqlPc \in {"idle", "returned", "raised"}

\* C11 (as claimed): once the calls made so far have ended, QUERY_COUNT[tag]
\* is the number of HTTP attempts made under that tag, retries included.
C11_CountsEveryAttempt ==
    GqlAtRest => \A t \in Tags : QUERY_COUNT[t] = httpAttempts[t]

\* C11 (amended): QUERY_COUNT[tag] is incremented once per gql call, at the
\* call site and before the first attempt; it is the number of calls made
\* under that tag and never more than the HTTP attempts made under it once
\* the calls have ended.
C11_CountsEveryCall ==
    /\ \A t \in Tags : QUERY_COUNT[t] = CallsUnder(t)
    /\ GqlAtRest => \A t \in Tags : QUERY_COUNT[t] <= httpAttempts[t]

\* one call under a tag ended after three attempts and was counted once
C11_Witness ==
    /\ gqlPc = "returned"
    /\ QUERY_COUNT["followers"] = 1
    /\ httpAttempts["followers"] = MAX_RETRIES


\* C13: the tuple heavy_stats returns is (sum of myCommits, sum of
\* additions, sum of deletions, additions sum minus deletions sum) over the
\* entries the same pass wrote to the cache, one per listed repository; one
\* repository with cached total 0 and one live commit (+10/-2) by the
\* tracked account gives (1, 10, 2, 8).
C13_Aggregation ==
    \A p \in Procs :
        LET s == proc[p]
            written == RepoLines(cacheFile.lines)
        IN
        s.pc = "returned" =>
            /\ Len(written) = Len(remoteList)
            /\ \A j \in 1..Len(written) : written[j].hash = Sha256(remoteList[j])
            /\ s.result.commits = SumField(written, "my")
            /\ s.result.loc_add = SumField(written, "add")
            /\ s.result.loc_del = SumField(written, "del")
            /\ s.result.loc_net = SumField(written, "add") - SumField(written, "del")
            /\ (/\ Len(remoteList) = 1
                /\ RepoLines(s.lines)[1].total = 0
                /\ remoteHist[remoteList[1]] = Branch(<<cMe>>))
               => s.result = [commits |-> 1, loc_add |-> 10, loc_del |-> 2, loc_net |-> 8]

\* the example of the claim: one repository, cached total 0, one live commit
\* (+10/-2) by the tracked account, and the pass returned (1, 10, 2, 8)
C13_Witness ==
    \E p \in Procs :
        LET s == proc[p] IN
        /\ s.pc = "returned"
        /\ Len(remoteList) = 1
        /\ RepoLines(s.lines)[1].total = 0
        /\ remoteHist[remoteList[1]] = Branch(<<cMe>>)
        /\ s.result = [commits |-> 1, loc_add |-> 10, loc_del |-> 2, loc_net |-> 8]

\* the file found by the pass already held one entry per listed repository
\* with the expected fingerprints
FoundMatching(s) ==
    /\ s.seenFile.exists
    /\ Len(RepoLines(s.seenFile.lines)) = Len(s.repos)
    /\ \A j \in 1..Len(s.repos) :
          RepoLines(s.seenFile.lines)[j].hash = Sha256(s.repos[j])

\* C14: with the force-rebuild flag set, init_cache_if_needed rewrites the
\* cache to the header plus one zeroed entry per listed repository, also when
\* the file found had a matching entry count and matching fingerprints; no
\* cached counts are reused in the pass for a repository whose live total is
\* not zero (its history is paged).
C14_ForceRebuilds ==
    \A p \in Procs :
        LET s == proc[p] IN
        (s.FORCE_CACHE /\ InPass(s)) =>
            /\ RepoLines(s.lines) = ZeroEntries(s.repos)
            /\ HeaderOf(s.lines) \in {Header(t) : t \in 1..MaxTime}
            /\ JustLoaded(s) => cacheFile = File(s.lines)
            /\ \A j \in 1..Len(s.updated_lines) :
                  s.updated_lines[j].total # 0 => j \in s.paged

\* a forced pass found a matching cache with non-zero counts, and recorded a
\* repository with a non-zero live total
C14_Witness ==
    \E p \in Procs :
        LET s == proc[p] IN
        /\ s.FORCE_CACHE
        /\ InPass(s)
        /\ FoundMatching(s)
        /\ \E j \in 1..Len(s.updated_lines) :
              /\ s.updated_lines[j].total # 0
              /\ RepoLines(s.seenFile.lines)[j].total = s.updated_lines[j].total
              /\ RepoLines(s.seenFile.lines)[j].my > 0

(***************************************************************************)
(* Properties of heavy_stats against a changing account (SpecDrift).       *)
(***************************************************************************)

\* C12 (as claimed): a repository whose default branch ref was absent in
\* every response of the pass is recorded as (fingerprint, 0, 0, 0, 0) and
\* adds nothing to the aggregate, whatever its cached line was.
C12_EmptyBranchZero ==
    \A p \in Procs :
        LET s == proc[p] IN
        InPass(s) =>
            \A j \in 1..Len(s.updated_lines) :
                j \in s.absent =>
                    s.updated_lines[j] = Entry(Sha256(s.repos[j]), 0, 0, 0, 0)

(***************************************************************************)
(* Properties of main (checked under SpecMain).                            *)
(***************************************************************************)

Files == {SVG_FILES[k] : k \in 1..Len(SVG_FILES)}

Rendering == main.pc \in {"render", "done"} \/ \E f \in Files : svg[f].written

\* C15: rendering starts only after every remote query of the run, and with
\* heavy mode on the heavy aggregation and its cache write, has completed
\* successfully; when one of them raises no output document is written.
C15_NoPartialSuccess ==
    /\ Rendering =>
          /\ {"user_getter", "owned", "contrib", "followers"} \subseteq main.answered
          /\ main.DO_HEAVY =>
                /\ proc[1].pc = "returned"
                /\ proc[1].last.ok
                /\ cacheFile.exists
                /\ RepoLines(cacheFile.lines) = proc[1].last.entries
    /\ (main.pc = "raised" \/ proc[1].pc = "raised") =>
          \A f \in Files :
              /\ ~svg[f].written
              /\ svg[f].container => svg[f].text["follower_data"] = Placeholder

\* a run with heavy mode on wrote both documents
C15_Witness ==
    /\ main.pc = "done"
    /\ main.DO_HEAVY
    /\ proc[1].pc = "returned"
    /\ \A f \in Files : svg[f].written

\* C16: the stats record handed to the renderer has loc_add, loc_del and
\* loc_net exactly when heavy mode ran in the run; with heavy mode off
\* commits is 0 and the three fields are absent.
C16_LocKeysIffHeavy ==
    main.pc \in {"render", "done"} =>
        LET heavyRan == proc[1].pc # "idle" IN
        /\ heavyRan <=> main.DO_HEAVY
        /\ heavyRan => LocKeys \subseteq DOMAIN main.stats
        /\ ~heavyRan => /\ LocKeys \cap DOMAIN main.stats = {}
                        /\ main.stats["commits"] = 0

\* a run with heavy mode off reached the renderer
C16_Witness ==
    /\ main.pc = "render"
    /\ ~main.DO_HEAVY
    /\ proc[1].pc = "idle"
    /\ DOMAIN main.stats = {"age", "repos", "stars", "contrib", "followers", "commits"}

\* the stargazers of the whole owned listing: 5 for u/r1, 3 for u/r2
StarTotal ==
    (IF InList("u/r1", remoteList) THEN 5 ELSE 0)
    + (IF InList("u/r2", remoteList) THEN 3 ELSE 0)

\* C17: the star total of get_repos_and_stars is the sum of the stargazer
\* counts of every owned repository over all pages of the owned listing,
\* each page requested once, in cursor order (5 + 3 = 8 for two
\* repositories).
C17_StarSum ==
    "owned" \in main.answered =>
        /\ main.stars = StarTotal
        /\ main.owned_repos = Len(remoteList)
        /\ \A k \in 1..Len(main.visited) : main.visited[k] = (k - 1) * ListPageSize
        /\ Len(main.visited) >= 1
        /\ (Len(main.visited) - 1) * ListPageSize < Len(remoteList) \/ remoteList = << >>
        /\ Len(main.visited) * ListPageSize >= Len(remoteList)
        /\ Len(remoteList) = 2 => main.stars = 8

\* two owned repositories, every page visited, 8 stars
C17_Witness ==
    /\ "owned" \in main.answered
    /\ Len(remoteList) = 2
    /\ Len(main.visited) * ListPageSize >= 2
    /\ main.stars = 8

(***************************************************************************)
(* Properties of the renderer (checked under SpecRender).                  *)
(***************************************************************************)

\* the documents update_svgs has written that have the stats container
Rendered == {f \in Files : svg[f].written /\ svg[f].container}

CountIds == {"repo_data", "contrib_data", "star_data", "commit_data", "follower_data"}

\* a text as an element of width max shows it: whole if it fits, otherwise
\* its first max - 1 characters and an ellipsis
Shown(text, max) ==
    IF Len(text) <= max THEN text
    ELSE SubSeq(text, 1, max - 1) \o <<ELLIPSIS>>

\* C18 (as claimed): after rendering a template with the stats container,
\* each count element (and age_data when present) holds the formatted value
\* of the stats record and none is left as '--'; with heavy data, loc_data,
\* loc_add and loc_del hold the net, '+additions' and '-deletions' values.
C18_RenderedExact ==
    \A f \in Rendered :
        LET d == svg[f] IN
        /\ \A id \in CountIds :
              /\ d.text[id] = format_int(main.stats[id_map[id]])
              /\ d.text[id] # Placeholder
        /\ "age_data" \in d.has =>
              d.text["age_data"] = main.stats["age"] /\ d.text["age_data"] # Placeholder
        /\ LocKeys \subseteq DOMAIN main.stats =>
              /\ d.text["loc_data"] = format_int(main.stats["loc_net"])
              /\ d.text["loc_add"] = <<"+">> \o format_int(main.stats["loc_add"])
              /\ d.text["loc_del"] = <<"-">> \o format_int(main.stats["loc_del"])

\* C18 (amended): each of those elements holds the formatted value as far
\* as it fits into MAX_VALUE_CHAR[id] characters, a longer one cut to its
\* first MAX_VALUE_CHAR[id] - 1 characters and an ellipsis; none is '--'.
C18_RenderedTruncated ==
    \A f \in Rendered :
        LET d == svg[f] IN
        /\ \A id \in CountIds :
              /\ d.text[id] = Shown(format_int(main.stats[id_map[id]]), MAX_VALUE_CHAR[id])
              /\ d.text[id] # Placeholder
        /\ "age_data" \in d.has =>
              /\ d.text["age_data"] = Shown(main.stats["age"], MAX_VALUE_CHAR["age_data"])
              /\ d.text["age_data"] # Placeholder
        /\ LocKeys \subseteq DOMAIN main.stats =>
              /\ d.text["loc_data"]
                   = Shown(format_int(main.stats["loc_net"]), MAX_VALUE_CHAR["loc_data"])
              /\ d.text["loc_add"]
                   = Shown(<<"+">> \o format_int(main.stats["loc_add"]), MAX_VALUE_CHAR["loc_add"])
              /\ d.text["loc_del"]
                   = Shown(<<"-">> \o format_int(main.stats["loc_del"]), MAX_VALUE_CHAR["loc_del"])

\* a rendered document with heavy data in which 12,345,678 repositories and
\* +10,000,000 lines do not fit and 42 followers do
C18_Witness ==
    \E f \in Rendered :
        /\ "age_data" \in svg[f].has
        /\ svg[f].text["repo_data"] = <<"1", "2", ",", "3", "4", "5", ",", ELLIPSIS>>
        /\ svg[f].text["follower_data"] = <<"4", "2">>
        /\ svg[f].text["loc_add"] = <<"+", "1", "0", ",", "0", "0", "0", ",", "0", ELLIPSIS>>
        /\ svg[f].text["loc_del"] = <<"-", "2">>

(***************************************************************************)
(* Properties of the load of the cache file (checked under SpecFound).     *)
(***************************************************************************)

\* the file begins with the 5 lines write_cache_header writes
HeaderPresent(file) ==
    /\ Len(file.lines) >= CACHE_COMMENT_LINES
    /\ \A k \in 1..CACHE_COMMENT_LINES :
          file.lines[k].kind = "header" /\ file.lines[k].k = k

\* the lines the pass works on are those of a rebuild: a header and one
\* zeroed entry per listed repository
Rebuilt(s) ==
    /\ HeaderPresent(File(s.lines))
    /\ RepoLines(s.lines) = ZeroEntries(s.repos)

\* C19 (as claimed): when the file found has no header (it does not begin
\* with the 5 header lines) or its entry count differs from the live
\* repository count, a rebuild runs before heavy_stats reads any entry.
C19_HeaderOrCountRebuilds ==
    \A p \in Procs :
        LET s == proc[p] IN
        (InPass(s) /\ s.seenFile.exists) =>
            ((\/ ~HeaderPresent(s.seenFile)
              \/ Len(RepoLines(s.seenFile.lines)) # Len(s.repos))
             => Rebuilt(s))

\* C19 (amended): a rebuild runs before any entry is read when the number
\* of lines after the first 5 differs from the live repository count; what
\* the first 5 lines hold is not examined, and with equal counts and the
\* force flag off the file is loaded as found.
C19_CountRebuilds ==
    \A p \in Procs :
        LET s == proc[p] IN
        (InPass(s) /\ s.seenFile.exists) =>
            /\ Len(RepoLines(s.seenFile.lines)) # Len(s.repos) => Rebuilt(s)
            /\ (/\ Len(RepoLines(s.seenFile.lines)) = Len(s.repos)
                /\ ~s.FORCE_CACHE)
               => s.lines = s.seenFile.lines

\* a pass loaded a file without intact header and read a non-zero entry of it
C19_Witness ==
    \E p \in Procs :
        LET s == proc[p] IN
        /\ InPass(s)
        /\ s.seenFile.exists
        /\ ~HeaderPresent(s.seenFile)
        /\ ~s.FORCE_CACHE
        /\ Len(s.updated_lines) >= 1
        /\ s.lines = s.seenFile.lines
        /\ RepoLines(s.lines)[1].my > 0

(***************************************************************************)
(* Frame of init_cache_if_needed (checked under Spec).                     *)
(***************************************************************************)

\* the pass found a cache file, runs without the force flag, and the file
\* had as many entries as the listing has repositories
LoadedAsFound(s) ==
    /\ s.seenFile.exists
    /\ ~s.FORCE_CACHE
    /\ Len(RepoLines(s.seenFile.lines)) = Len(s.repos)

\* C20: when the cache file exists, the force flag is off and the entry
\* count equals the live repository count, init_cache_if_needed leaves the
\* file as it is (no entry zeroed, header not rewritten); the file changes
\* only at the final persist, which keeps the header and replaces the
\* entries.
C20_InitLeavesFile ==
    \A p \in Procs :
        LET s == proc[p] IN
        LoadedAsFound(s) =>
            /\ s.pc \in {"loop", "scan_probe", "scan_page", "raised"} =>
                  /\ cacheFile = s.seenFile
                  /\ s.lines = s.seenFile.lines
            /\ s.pc = "returned" =>
                  /\ s.lines = s.seenFile.lines
                  /\ HeaderOf(cacheFile.lines) = HeaderOf(s.seenFile.lines)
                  /\ RepoLines(cacheFile.lines) = s.updated_lines

\* a pass that loaded the file as found, with counts in it, is past its
\* first repository and has not persisted yet
C20_Witness ==
    \E p \in Procs :
        LET s == proc[p] IN
        /\ LoadedAsFound(s)
        /\ s.pc = "loop"
        /\ Len(s.updated_lines) >= 1
        /\ RepoLines(s.seenFile.lines)[1].my > 0
        /\ s.updated_lines[1] # RepoLines(s.seenFile.lines)[1]
        /\ cacheFile = s.seenFile

(***************************************************************************)
(* Persist (checked under Spec).                                           *)
(***************************************************************************)

\* C21: the cache file is written once, after the loop over all
\* repositories: until then it holds the lines loaded at the start of the
\* pass, and afterwards the 5 header lines loaded at the start followed by
\* the working set, one line per listed repository in listing order.
C21_PersistWholeFile ==
    \A p \in Procs :
        LET s == proc[p] IN
        /\ s.pc \in {"loop", "scan_probe", "scan_page"} => cacheFile = File(s.lines)
        /\ s.pc = "returned" =>
              /\ cacheFile.exists
              /\ Len(cacheFile.lines) = CACHE_COMMENT_LINES + Len(s.repos)
              /\ \A k \in 1..CACHE_COMMENT_LINES : cacheFile.lines[k] = s.lines[k]
              /\ \A k \in 1..Len(s.repos) :
                    /\ cacheFile.lines[CACHE_COMMENT_LINES + k] = s.updated_lines[k]
                    /\ s.updated_lines[k].hash = Sha256(s.repos[k])

\* a pass over two repositories persisted a working set that differs from
\* the entries it loaded in both lines
C21_Witness ==
    \E p \in Procs :
        LET s == proc[p] IN
        /\ s.pc = "returned"
        /\ Len(s.repos) = 2
        /\ Len(s.updated_lines) = 2
        /\ \A k \in 1..2 : s.updated_lines[k] # RepoLines(s.lines)[k]
        /\ s.updated_lines[1].my > 0

(***************************************************************************)
(* Edited cache files (checked under SpecCorrupt).                         *)
(***************************************************************************)

\* C22: a cache file with the live number of entries and matching
\* fingerprints is loaded without rebuild whatever its numeric fields are;
\* every entry whose stored totalCommits equals the probed total is taken
\* over as it is (no history page), counted in the returned aggregate and
\* written back unchanged.
C22_CorruptionTrusted ==
    \A p \in Procs :
        LET s == proc[p]
            seen == RepoLines(s.seenFile.lines)
        IN
        (InPass(s) /\ ~s.FORCE_CACHE /\ FoundMatching(s)) =>
            /\ s.lines = s.seenFile.lines
            /\ \A j \in 1..Len(s.updated_lines) :
                  seen[j].total = s.updated_lines[j].total =>
                      /\ s.updated_lines[j] = seen[j]
                      /\ j \notin s.paged
            /\ s.totals.my = SumField(s.updated_lines, "my")
            /\ s.pc = "returned" =>
                  /\ s.last.ok
                  /\ s.last.entries = s.updated_lines
                  /\ s.result.commits = SumField(s.updated_lines, "my")
                  /\ s.result.loc_add = SumField(s.updated_lines, "add")
                  /\ s.result.loc_del = SumField(s.updated_lines, "del")

\* a pass returned 9 commits and 99 additions for a repository with a single
\* commit, taken from an edited entry, and wrote the entry back
C22_Witness ==
    \E p \in Procs :
        LET s == proc[p] IN
        /\ s.pc = "returned"
        /\ ~s.FORCE_CACHE
        /\ FoundMatching(s)
        /\ Len(s.repos) = 1
        /\ Len(remoteHist[s.repos[1]].commits) = 1
        /\ RepoLines(s.seenFile.lines)[1].my = 9
        /\ s.result.commits = 9
        /\ s.result.loc_add = 99
        /\ s.last.entries[1] = RepoLines(s.seenFile.lines)[1]

(***************************************************************************)
(* Two runs on one cache file (checked under SpecTwo).                     *)
(***************************************************************************)

\* both runs returned and p persisted after q
PersistedLast(p, q) ==
    /\ proc[p].pc = "returned"
    /\ proc[q].pc = "returned"
    /\ proc[p].rank > proc[q].rank

\* C23: when two runs on the shared cache file both return, the file is as
\* a whole what the run that persisted last wrote (the header that run
\* loaded and its working set); nothing the other run persisted is merged
\* in.
C23_LastWriterWins ==
    \A p \in Procs, q \in Procs :
        PersistedLast(p, q) =>
            cacheFile = File(SubSeq(proc[p].lines, 1, CACHE_COMMENT_LINES)
                             \o proc[p].updated_lines)

\* the lost update: both runs returned, q persisted the result of a rescan
\* with commits of the account, and the file holds instead the line p wrote
\* afterwards from what it had read earlier
C23_Witness ==
    \E p \in Procs, q \in Procs :
        /\ PersistedLast(p, q)
        /\ 1 \in proc[q].paged
        /\ proc[q].last.entries[1].my > 0
        /\ 1 \notin proc[p].paged
        /\ RepoLines(cacheFile.lines)[1] # proc[q].last.entries[1]
        /\ RepoLines(cacheFile.lines)[1].my = 0

(***************************************************************************)
(* Fingerprints guard every use of cached counts (checked under Spec).     *)
(***************************************************************************)

\* the entry line at index k of the file the pass loaded
LoadedEntry(s, k) == s.lines[CACHE_COMMENT_LINES + k]

\* the indices whose cached counts the pass has compared with a probed total
Compared(s) ==
    1..Len(s.updated_lines)
    \cup (IF s.pc \in {"scan_probe", "scan_page"} THEN {s.i} ELSE {})

\* C24: in every pass, the cached counts of entry k are compared with the
\* probed total, or reused, only when the fingerprint stored in entry k
\* equals sha256 of the k-th live repository name of the same invocation;
\* counts written back without paging the history are the counts of that
\* very entry.
C24_FingerprintBeforeCounts ==
    \A p \in Procs :
        LET s == proc[p] IN
        InPass(s) =>
            \A k \in Compared(s) :
                /\ Len(s.lines) >= CACHE_COMMENT_LINES + k
                /\ LoadedEntry(s, k).hash = Sha256(s.repos[k])
                /\ (k <= Len(s.updated_lines) /\ k \notin s.paged
                        /\ s.updated_lines[k].total = LoadedEntry(s, k).total) =>
                      s.updated_lines[k] = LoadedEntry(s, k)

\* a pass over two repositories returned after reusing the non-zero cached
\* counts of its first entry and paging the history of the second
C24_Witness ==
    \E p \in Procs :
        LET s == proc[p] IN
        /\ s.pc = "returned"
        /\ Len(s.repos) = 2
        /\ 1 \notin s.paged
        /\ 2 \in s.paged
        /\ LoadedEntry(s, 1).hash = Sha256(s.repos[1])
        /\ LoadedEntry(s, 1).my > 0
        /\ s.updated_lines[1] = LoadedEntry(s, 1)

(***************************************************************************)
(* A failing remote call inside the loop (checked under Spec).             *)
(***************************************************************************)

\* heavy_stats was left by the exception of a remote call made after the
\* cache had been loaded
RaisedInLoop(s) == s.pc = "raised" /\ s.error = "RemoteError" /\ s.i >= 1

\* C25: when a remote call raises during the per-repository loop, the
\* exception leaves heavy_stats and nothing of the working set is persisted:
\* the entry lines of the cache file are those present right after
\* init_cache_if_needed in that pass, the entries found when the file was
\* kept, all-zero entries when the pass rebuilt it.
C25_RaiseKeepsFile ==
    \A p \in Procs :
        LET s == proc[p] IN
        RaisedInLoop(s) =>
            /\ cacheFile.exists
            /\ Len(cacheFile.lines) = CACHE_COMMENT_LINES + Len(s.repos)
            /\ \A k \in 1..Len(s.repos) :
                  LET e == cacheFile.lines[CACHE_COMMENT_LINES + k] IN
                  IF LoadedAsFound(s)
                  THEN e = s.seenFile.lines[CACHE_COMMENT_LINES + k]
                  ELSE /\ e.hash = Sha256(s.repos[k])
                       /\ e.total = 0 /\ e.my = 0 /\ e.add = 0 /\ e.del = 0

\* the rebuilt cache of two repositories: the first was rescanned with
\* commits of the account, then a remote call for the second one raised
C25_Witness ==
    \E p \in Procs :
        LET s == proc[p] IN
        /\ RaisedInLoop(s)
        /\ ~LoadedAsFound(s)
        /\ s.i = 2
        /\ Len(s.updated_lines) = 1
        /\ s.updated_lines[1].my > 0
        /\ cacheFile.lines[CACHE_COMMENT_LINES + 1].my = 0

(***************************************************************************)
(* Consistency of persisted entries under drift (checked under SpecDrift). *)
(***************************************************************************)

\* C26 (as claimed): after every successful pass each persisted cache entry
\* has myCommits <= totalCommits, and an entry with totalCommits = 0 has
\* myCommits = additions = deletions = 0, also when the history of the
\* repository changes between the probe of heavy_stats and the probe and
\* paging of scan_repo_history in the same pass.
C26_EntriesConsistent ==
    \A p \in Procs :
        LET s == proc[p] IN
        (s.pc = "returned" /\ s.last.ok) =>
            \A k \in 1..Len(s.last.entries) :
                LET e == s.last.entries[k] IN
                /\ e.my <= e.total
                /\ e.total = 0 => (e.my = 0 /\ e.add = 0 /\ e.del = 0)

(***************************************************************************)
(* RECURSION_GUARD and termination (checked under SpecLive).               *)
(***************************************************************************)

\* heavy_stats of p is running
InCall(p) == proc[p].pc \in {"collect", "init", "loop", "scan_probe", "scan_page"}

\* what a step of a process may do to its guard: never lower it; the
\* restart after a mismatch raises it by one; a mismatch found with the
\* guard above 1 raises at once, the file and the guard as they were
GuardStep(p) ==
    /\ proc'[p].RECURSION_GUARD >= proc[p].RECURSION_GUARD
    /\ (proc[p].pc = "loop" /\ proc'[p].pc = "collect") =>
          proc'[p].RECURSION_GUARD = proc[p].RECURSION_GUARD + 1
    /\ (MismatchFound(p) /\ proc[p].RECURSION_GUARD > 1 /\ proc'[p] # proc[p]) =>
          /\ GuardError(proc'[p])
          /\ proc'[p].RECURSION_GUARD = proc[p].RECURSION_GUARD
          /\ cacheFile' = cacheFile

\* C27: within one process RECURSION_GUARD never decreases and is never
\* reset, each restart after a mismatch raises it by one and it never
\* exceeds 2, so the restarts of all heavy_stats calls of the process are
\* bounded by a constant; every heavy_stats call returns or raises; with the
\* guard above its threshold a fingerprint mismatch raises at once, without
\* rebuild or restart.
C27_GuardBoundsRestarts ==
    /\ [][\A p \in Procs : GuardStep(p)]_vars
    /\ [](\A p \in Procs : proc[p].RECURSION_GUARD \in 0..2)
    /\ \A p \in Procs : InCall(p) ~> proc[p].pc \in {"returned", "raised"}

\* a later call of the same process, entered with the guard at 2, has
\* raised at its first mismatch
C27_Witness ==
    \E p \in Procs :
        /\ GuardError(proc[p])
        /\ proc[p].callMismatches = 1
        /\ proc[p].RECURSION_GUARD = 2

(***************************************************************************)
(* Heavy mode off (checked under SpecMain).                                *)
(***************************************************************************)

\* main runs with DO_HEAVY off
HeavyOff == main.pc # "off" /\ ~main.DO_HEAVY

\* C28: with heavy mode off a run issues no listing for the scan, no
\* commit-count probe and no history paging (QUERY_COUNT of loc_list_repos
\* and of loc_repo_scan stay 0), heavy_stats is never entered, and the cache
\* file is neither created, read, rebuilt nor rewritten: no step changes it.
C28_HeavyOffFrame ==
    /\ [](HeavyOff =>
            /\ QUERY_COUNT["loc_list_repos"] = 0
            /\ QUERY_COUNT["loc_repo_scan"] = 0
            /\ proc[1].pc = "idle"
            /\ ~proc[1].seenFile.exists)
    /\ [][HeavyOff => cacheFile' = cacheFile]_vars

\* a run with heavy mode off is done: it listed two owned repositories page
\* by page and counted those queries, no cache file was there and none is
\* there now
C28_Witness ==
    /\ HeavyOff
    /\ main.pc = "done"
    /\ Len(remoteList) = 2
    /\ QUERY_COUNT["repos_stars"] >= 4
    /\ QUERY_COUNT["user_getter"] = 1
    /\ QUERY_COUNT["loc_list_repos"] = 0
    /\ ~cacheFile.exists

====
